---------------------------- MODULE Spec2Model ----------------------------
(***************************************************************************)
(* State-machine model of ils_kickoff.py: the script loads a table of      *)
(* account records, runs fifteen summary analyses in sequence, and hands   *)
(* the fifteen summary tables to the PowerPoint and Excel writers.         *)
(*                                                                         *)
(* Conventions of the model                                                *)
(*  - the cleaned DataFrame df is a bag of records (record -> number of    *)
(*    accounts with exactly these values); no analysis reads row order.    *)
(*  - a float is a fraction [n, d]; d = 0 encodes the non-finite floats:   *)
(*    n = 0 is NaN, n = 1 is +inf, n = -1 is -inf.                         *)
(*  - a missing string cell (NaN) is the value Null.                       *)
(*  - the en dash of the bin labels is written as "-".                     *)
(***************************************************************************)
EXTENDS Integers, Sequences, FiniteSets, TLC

VARIABLES
    df,       \* the cleaned DataFrame (lines 50-93)
    columns,  \* the column names of the file after the renaming (lines 50-71)
    pc,       \* the position of the script
    tables,   \* the summary table of each analysis, <<>> while not produced
    slides,   \* the analyses whose table has a slide (lines 680-723)
    deck,     \* the cells of each slide's table as format_ppt_table fills them
    tabs,     \* the analyses whose table has a sheet (lines 767-788)
    failure   \* the exception that ended the script, if any

vars == <<df, columns, pc, tables, slides, deck, tabs, failure>>

(***************************************************************************)
(* Bounds of the model                                                     *)
(***************************************************************************)
MaxRows == 3
MaxValue == 50

(***************************************************************************)
(* Values                                                                  *)
(***************************************************************************)
Null == "NaN"
NaT == 0
Inf == 1000000

NaN == [n |-> 0, d |-> 0]
Zero == [n |-> 0, d |-> 1]
Hundred == [n |-> 100, d |-> 1]

Sgn(a) == IF a > 0 THEN 1 ELSE IF a < 0 THEN -1 ELSE 0

\* a / b on floats holding the integers a and b (pandas: x/0 is inf or NaN)
FDiv(a, b) ==
    IF b = 0 THEN [n |-> Sgn(a), d |-> 0]
    ELSE IF b < 0 THEN [n |-> -a, d |-> -b]
    ELSE [n |-> a, d |-> b]

Pow10(k) == 10 ^ k

\* p / q (q > 0) rounded to the nearest integer, ties to the even one
RoundHalfEven(p, q) ==
    LET f == p \div q
        r == p % q
    IN  IF 2 * r < q THEN f
        ELSE IF 2 * r > q THEN f + 1
        ELSE IF f % 2 = 0 THEN f ELSE f + 1

\* Series.round(k) / round(x, k): NaN and inf stay as they are
Round(x, k) ==
    IF x.d = 0 THEN x
    ELSE [n |-> RoundHalfEven(x.n * Pow10(k), x.d), d |-> Pow10(k)]

(***************************************************************************)
(* The input table                                                         *)
(***************************************************************************)
AllColumns == {"AcctNo", "Account Status", "Business Flag", "Total Items",
               "Paid Items", "Returned Items", "Deposit Count", "Deposit Amount",
               "OD Limit", "Avg Bal", "Swipes", "Spend", "OD Status",
               "Reg E Flag", "Open Date"}

Base == [AcctStatus |-> "O", BusinessFlag |-> "P", TotalItems |-> 0,
         PaidItems |-> 0, ReturnedItems |-> 0, DepositCount |-> 0,
         DepositAmount |-> 0, ODLimit |-> 0, AvgBal |-> 0, Swipes |-> 0,
         Spend |-> 0, ODStatus |-> "A", RegEFlag |-> "Y", YearOpened |-> 2015]

\* the records a loaded table is drawn from: Base with one or two cells changed
InputRows ==
    {Base,
     [Base EXCEPT !.AcctStatus = "C"],
     [Base EXCEPT !.AcctStatus = "C", !.TotalItems = 100, !.PaidItems = 40],
     [Base EXCEPT !.BusinessFlag = "B", !.TotalItems = 7, !.PaidItems = 7],
     [Base EXCEPT !.BusinessFlag = "B", !.DepositCount = 12, !.DepositAmount = 900],
     [Base EXCEPT !.TotalItems = 7, !.PaidItems = 2, !.DepositCount = 1,
                  !.DepositAmount = 250, !.Swipes = 5],
     [Base EXCEPT !.TotalItems = 100, !.PaidItems = 40, !.ODLimit = 500,
                  !.DepositCount = 3],
     [Base EXCEPT !.TotalItems = 13, !.PaidItems = 13],
     [Base EXCEPT !.ODStatus = Null, !.TotalItems = 6, !.PaidItems = 6],
     [Base EXCEPT !.ODStatus = "B", !.ODLimit = 500],
     [Base EXCEPT !.RegEFlag = Null],
     [Base EXCEPT !.RegEFlag = "N", !.YearOpened = 2009],
     [Base EXCEPT !.RegEFlag = "N", !.YearOpened = 2026],
     [Base EXCEPT !.YearOpened = NaT]}

\* one record over the whole range of a binned measure
WideRows ==
    {[Base EXCEPT !.TotalItems = v, !.PaidItems = u, !.BusinessFlag = b] :
        v \in -2 .. MaxValue, u \in {0, 1}, b \in {"P", "B"}}
    \cup
    {[Base EXCEPT !.DepositCount = w, !.BusinessFlag = b] :
        w \in -2 .. 12, b \in {"P", "B"}}

(***************************************************************************)
(* The cleaning of the measure columns (lines 73-93). A cell as read_csv   *)
(* returns it is a number ("num"), a missing value ("nan"), a text that is *)
(* no number ("text") or a number followed by a tab and more text ("tab"). *)
(***************************************************************************)
MeasureColumns == {"TotalItems", "PaidItems", "ReturnedItems", "ODLimit",
                   "AvgBal", "DepositAmount", "DepositCount", "Swipes", "Spend"}

RawCells ==
    {[kind |-> "num", v |-> 5], [kind |-> "nan", v |-> 0],
     [kind |-> "text", v |-> 0], [kind |-> "tab", v |-> 5]}

\* pd.to_numeric(df[col], errors="coerce").fillna(0)
to_numeric_fillna(cell) == IF cell.kind = "num" THEN cell.v ELSE 0

\* astype(str).str.split("\t").str[0], to_numeric(errors="coerce"), fillna(0)
DepositCountFix(cell) == IF cell.kind \in {"num", "tab"} THEN cell.v ELSE 0

\* fillna(0).astype(int): int() of a text that is no number raises ValueError
ReturnedItemsRaises(cell) == cell.kind \in {"text", "tab"}
ReturnedItemsFix(cell) == IF cell.kind = "num" THEN cell.v ELSE 0

\* the raw records: every measure 0 but one cell, which takes every raw value
RawRows ==
    {[col \in MeasureColumns |-> IF col = c THEN cell ELSE [kind |-> "num", v |-> 0]] :
        c \in MeasureColumns, cell \in RawCells}

CleaningRaises(raw) == ReturnedItemsRaises(raw.ReturnedItems)

Clean(raw) ==
    [col \in DOMAIN Base |->
        IF col = "DepositCount" THEN DepositCountFix(raw[col])
        ELSE IF col = "ReturnedItems" THEN ReturnedItemsFix(raw[col])
        ELSE IF col \in MeasureColumns THEN to_numeric_fillna(raw[col])
        ELSE Base[col]]

Rows == DOMAIN df

AddRow(r) ==
    IF r \in DOMAIN df
    THEN [df EXCEPT ![r] = @ + 1]
    ELSE [x \in DOMAIN df \cup {r} |-> IF x = r THEN 1 ELSE df[x]]

(***************************************************************************)
(* Reductions over a subset S of the table (count, sum, mean)              *)
(***************************************************************************)
RECURSIVE Count(_)
Count(S) ==
    IF S = {} THEN 0
    ELSE LET r == CHOOSE x \in S : TRUE
         IN  df[r] + Count(S \ {r})

RECURSIVE Sum(_, _)
Sum(S, col) ==
    IF S = {} THEN 0
    ELSE LET r == CHOOSE x \in S : TRUE
         IN  df[r] * r[col] + Sum(S \ {r}, col)

\* len(df)
Size == Count(Rows)

\* Series.mean(): NaN over no rows
Mean(S, col) == FDiv(Sum(S, col), Count(S))

\* groupby(...) sorts the group keys; the order of the string keys of the model
KeyOrder == <<"A", "B", "C", "N", "O", "P", "Y">>

SortedKeys(present) == SelectSeq(KeyOrder, LAMBDA k : k \in present)

\* faulty variant: the last group left out of the total (summary[col].iloc[:-1].sum())
RECURSIVE ColSumButLast(_, _)
ColSumButLast(rows, col) ==
    IF Len(rows) <= 1 THEN 0
    ELSE Head(rows)[col] + ColSumButLast(Tail(rows), col)

\* the column total of a list of group rows: summary[col].sum()
RECURSIVE ColSum(_, _)
ColSum(rows, col) ==
    IF rows = <<>> THEN 0
    ELSE Head(rows)[col] + ColSum(Tail(rows), col)

(***************************************************************************)
(* Filters and bins                                                        *)
(***************************************************************************)
OPEN_MASK == {r \in Rows : r.AcctStatus = "O"}
PERSONAL_OPEN == {r \in OPEN_MASK : r.BusinessFlag = "P"}
BUSINESS_OPEN == {r \in OPEN_MASK : r.BusinessFlag = "B"}

NSF_BINS == <<-1, 0, 6, 12, 24, 36, 48, Inf>>
NSF_LABELS == <<"0", "1-6", "7-12", "13-24", "25-36", "37-48", "49+">>

DEP_BINS == <<-1, 0, 1, 2, 5, 10, Inf>>
DEP_LABELS == <<"0", "1", "2", "3-5", "6-10", "10+">>

\* faulty variant: left-closed intervals (pd.cut(..., right=False))
InBinLeftClosed(v, bins, i) == bins[i] <= v /\ (bins[i + 1] = Inf \/ v < bins[i + 1])

\* pd.cut(v, bins, labels): right-closed intervals, lowest edge excluded,
\* NaN (Null) for a value in no interval
InBin(v, bins, i) == bins[i] < v /\ (bins[i + 1] = Inf \/ v <= bins[i + 1])

cut(v, bins, labels) ==
    IF \E i \in 1 .. Len(labels) : InBin(v, bins, i)
    THEN labels[CHOOSE i \in 1 .. Len(labels) : InBin(v, bins, i)]
    ELSE Null

(***************************************************************************)
(* Derived columns                                                         *)
(***************************************************************************)
\* faulty variant: the factor 100 forgotten
PctOfTotalFraction(x, total) == Round(FDiv(x, total), 2)

\* (x / total * 100).round(2), no guard on the total
PctOfTotal(x, total) == Round(FDiv(100 * x, total), 2)

\* (...).round(2) if total > 0 else 0      and      np.where(total > 0, ..., 0)
PctOfTotalGuarded(x, total) == IF total > 0 THEN PctOfTotal(x, total) ELSE Zero

\* faulty variant: the division without its zero guard
PayRatioUnguarded(paid, items, k) == Round(FDiv(paid, items), k)

\* np.where(items > 0, (paid / items).round(k), 0); round(tp / ti, k) if ti > 0 else 0
PayRatio(paid, items, k) == IF items > 0 THEN Round(FDiv(paid, items), k) ELSE Zero

\* np.where(items > 0, (paid / items * 100).round(1), 0)
PayRate(paid, items) == IF items > 0 THEN Round(FDiv(100 * paid, items), 1) ELSE Zero

(***************************************************************************)
(* ANALYSIS 1: Account Status Summary (all accounts)                       *)
(***************************************************************************)
stat_code_summary ==
    LET keys == SortedKeys({r.AcctStatus : r \in Rows})
        grp(k) == {r \in Rows : r.AcctStatus = k}
        agg == [i \in 1 .. Len(keys) |->
                  [label |-> keys[i], accts |-> Count(grp(keys[i])),
                   items |-> Sum(grp(keys[i]), "TotalItems"),
                   paid |-> Sum(grp(keys[i]), "PaidItems")]]
        ta == ColSum(agg, "accts")
        ti == ColSum(agg, "items")
        tp == ColSum(agg, "paid")
        body == [i \in 1 .. Len(keys) |->
                  [label |-> agg[i].label, accts |-> agg[i].accts,
                   pctAccts |-> PctOfTotal(agg[i].accts, ta),
                   items |-> agg[i].items,
                   pctItems |-> PctOfTotal(agg[i].items, ti),
                   paid |-> agg[i].paid,
                   payRatio |-> PayRatio(agg[i].paid, agg[i].items, 2)]]
        gt == [label |-> "Grand Total", accts |-> ta, pctAccts |-> Hundred,
               items |-> ti, pctItems |-> Hundred, paid |-> tp,
               payRatio |-> PayRatio(tp, ti, 2)]
    IN  Append(body, gt)

(***************************************************************************)
(* ANALYSIS 2: Account Type (open accounts)                                *)
(***************************************************************************)
FlagName(k) == IF k = "P" THEN "Personal" ELSE IF k = "B" THEN "Business" ELSE k

acct_type_summary ==
    LET df_open == OPEN_MASK
        keys == SortedKeys({r.BusinessFlag : r \in df_open})
        grp(k) == {r \in df_open : r.BusinessFlag = k}
        agg == [i \in 1 .. Len(keys) |->
                  [label |-> keys[i], accts |-> Count(grp(keys[i])),
                   items |-> Sum(grp(keys[i]), "TotalItems"),
                   paid |-> Sum(grp(keys[i]), "PaidItems")]]
        ta == ColSum(agg, "accts")
        ti2 == ColSum(agg, "items")
        tp2 == ColSum(agg, "paid")
        body == [i \in 1 .. Len(keys) |->
                  [label |-> FlagName(agg[i].label), accts |-> agg[i].accts,
                   items |-> agg[i].items, paid |-> agg[i].paid,
                   pctAccts |-> PctOfTotal(agg[i].accts, ta),
                   pctItems |-> PctOfTotal(agg[i].items, ti2),
                   payRatio |-> PayRatio(agg[i].paid, agg[i].items, 2)]]
        gt2 == [label |-> "Grand Total", accts |-> ta, items |-> ti2,
                paid |-> tp2, pctAccts |-> Hundred, pctItems |-> Hundred,
                payRatio |-> PayRatio(tp2, ti2, 2)]
    IN  Append(body, gt2)

(***************************************************************************)
(* Binned groupings: groupby(<bin column>, observed=True)                  *)
(***************************************************************************)
\* the rows of S whose value of col falls in the bin labelled l
BinGroup(S, col, bins, labels, l) == {r \in S : cut(r[col], bins, labels) = l}

\* faulty variant: the observed bin labels as strings, in alphabetical order
\* (a groupby on the labels cast to str)
ObservedBinsAlphabetical(S, col, bins, labels) ==
    SelectSeq(<<"0", "1", "10+", "13-24", "1-6", "2", "25-36", "37-48", "3-5",
                "49+", "6-10", "7-12">>,
              LAMBDA l : {r \in S : cut(r[col], bins, labels) = l} # {})

\* the observed bin labels, in the order of the categories
ObservedBins(S, col, bins, labels) ==
    SelectSeq(labels, LAMBDA l : BinGroup(S, col, bins, labels, l) # {})

(***************************************************************************)
(* ANALYSIS 3 / 4: Deposit Distribution (personal / business)              *)
(***************************************************************************)
deposit_summary(S) ==
    LET keys == ObservedBins(S, "DepositCount", DEP_BINS, DEP_LABELS)
        grp(l) == BinGroup(S, "DepositCount", DEP_BINS, DEP_LABELS, l)
        agg == [i \in 1 .. Len(keys) |->
                  [label |-> keys[i], accts |-> Count(grp(keys[i])),
                   avgDepAmt |-> Mean(grp(keys[i]), "DepositAmount"),
                   avgDepCnt |-> Mean(grp(keys[i]), "DepositCount")]]
        ta == ColSum(agg, "accts")
        body == [i \in 1 .. Len(keys) |->
                  [label |-> agg[i].label, accts |-> agg[i].accts,
                   avgDepAmt |-> agg[i].avgDepAmt,
                   avgDepCnt |-> agg[i].avgDepCnt,
                   pctAccts |-> PctOfTotal(agg[i].accts, ta)]]
        gt == [label |-> "Grand Total", accts |-> ta,
               avgDepAmt |-> Mean(S, "DepositAmount"),
               avgDepCnt |-> Mean(S, "DepositCount"),
               pctAccts |-> Hundred]
    IN  Append(body, gt)

personal_deposit_summary == deposit_summary(PERSONAL_OPEN)
business_deposit_summary == deposit_summary(BUSINESS_OPEN)

(***************************************************************************)
(* ANALYSIS 5 / 6: NSF Stratification, volume (personal / business)        *)
(***************************************************************************)
nsf_strat(S) ==
    LET keys == ObservedBins(S, "TotalItems", NSF_BINS, NSF_LABELS)
        grp(l) == BinGroup(S, "TotalItems", NSF_BINS, NSF_LABELS, l)
        agg == [i \in 1 .. Len(keys) |->
                  [label |-> keys[i], accts |-> Count(grp(keys[i])),
                   items |-> Sum(grp(keys[i]), "TotalItems")]]
        ta5 == ColSum(agg, "accts")
        ti5 == ColSum(agg, "items")
        body == [i \in 1 .. Len(keys) |->
                  [label |-> agg[i].label, accts |-> agg[i].accts,
                   pctAccts |-> PctOfTotal(agg[i].accts, ta5),
                   items |-> agg[i].items,
                   pctItems |-> PctOfTotalGuarded(agg[i].items, ti5)]]
        gt5 == [label |-> "Grand Total", accts |-> ta5, pctAccts |-> Hundred,
                items |-> ti5, pctItems |-> Hundred]
    IN  Append(body, gt5)

nsf_strat1 == nsf_strat(PERSONAL_OPEN)
nsf_strat_biz == nsf_strat(BUSINESS_OPEN)

(***************************************************************************)
(* ANALYSIS 7 / 8: NSF + Pay Ratio (personal / business)                   *)
(***************************************************************************)
nsf_pay(S) ==
    LET keys == ObservedBins(S, "TotalItems", NSF_BINS, NSF_LABELS)
        grp(l) == BinGroup(S, "TotalItems", NSF_BINS, NSF_LABELS, l)
        agg == [i \in 1 .. Len(keys) |->
                  [label |-> keys[i], accts |-> Count(grp(keys[i])),
                   items |-> Sum(grp(keys[i]), "TotalItems"),
                   paid |-> Sum(grp(keys[i]), "PaidItems")]]
        ta7 == ColSum(agg, "accts")
        ti7 == ColSum(agg, "items")
        tp7 == ColSum(agg, "paid")
        body == [i \in 1 .. Len(keys) |->
                  [label |-> agg[i].label, accts |-> agg[i].accts,
                   items |-> agg[i].items, paid |-> agg[i].paid,
                   pctAccts |-> PctOfTotal(agg[i].accts, ta7),
                   pctItems |-> PctOfTotalGuarded(agg[i].items, ti7),
                   payRate |-> PayRate(agg[i].paid, agg[i].items)]]
        gt7 == [label |-> "Grand Total", accts |-> ta7, pctAccts |-> Hundred,
                items |-> ti7, pctItems |-> Hundred, paid |-> tp7,
                payRate |-> PayRate(tp7, ti7)]
    IN  Append(body, gt7)

nsf_pay_p == nsf_pay(PERSONAL_OPEN)
nsf_pay_b == nsf_pay(BUSINESS_OPEN)

(***************************************************************************)
(* ANALYSIS 9 / 10: NSF + Deposits + Swipes (personal / business)          *)
(***************************************************************************)
nsf_deps(S) ==
    LET keys == ObservedBins(S, "TotalItems", NSF_BINS, NSF_LABELS)
        grp(l) == BinGroup(S, "TotalItems", NSF_BINS, NSF_LABELS, l)
        agg == [i \in 1 .. Len(keys) |->
                  [label |-> keys[i], accts |-> Count(grp(keys[i])),
                   items |-> Sum(grp(keys[i]), "TotalItems"),
                   paid |-> Sum(grp(keys[i]), "PaidItems"),
                   avgDepCnt |-> Mean(grp(keys[i]), "DepositCount"),
                   avgDepAmt |-> Mean(grp(keys[i]), "DepositAmount"),
                   avgODLimit |-> Mean(grp(keys[i]), "ODLimit"),
                   avgSwipes |-> Mean(grp(keys[i]), "Swipes")]]
        ta9 == ColSum(agg, "accts")
        ti9 == ColSum(agg, "items")
        tp9 == ColSum(agg, "paid")
        body == [i \in 1 .. Len(keys) |->
                  [label |-> agg[i].label, accts |-> agg[i].accts,
                   items |-> agg[i].items, paid |-> agg[i].paid,
                   avgDepCnt |-> Round(agg[i].avgDepCnt, 2),
                   avgDepAmt |-> Round(agg[i].avgDepAmt, 2),
                   avgODLimit |-> Round(agg[i].avgODLimit, 2),
                   avgSwipes |-> Round(agg[i].avgSwipes, 2),
                   pctAccts |-> PctOfTotal(agg[i].accts, ta9),
                   pctItems |-> PctOfTotalGuarded(agg[i].items, ti9),
                   payRate |-> PayRate(agg[i].paid, agg[i].items)]]
        gt9 == [label |-> "Grand Total", accts |-> ta9, pctAccts |-> Hundred,
                items |-> ti9, pctItems |-> Hundred, paid |-> tp9,
                payRate |-> PayRate(tp9, ti9),
                avgDepCnt |-> Round(Mean(S, "DepositCount"), 2),
                avgDepAmt |-> Round(Mean(S, "DepositAmount"), 2),
                avgODLimit |-> Round(Mean(S, "ODLimit"), 2),
                avgSwipes |-> Round(Mean(S, "Swipes"), 2)]
    IN  Append(body, gt9)

nsf_deps_p == nsf_deps(PERSONAL_OPEN)
nsf_deps_b == nsf_deps(BUSINESS_OPEN)

(***************************************************************************)
(* ANALYSIS 11 / 12: OD Status Stratification (personal / business)        *)
(***************************************************************************)
\* groupby(col) with the default dropna=True: rows with a null key are left out
GroupKeys(S, col) == SortedKeys({r[col] : r \in S} \ {Null})

od_status(S) ==
    LET keys == GroupKeys(S, "ODStatus")
        grp(k) == {r \in S : r.ODStatus = k}
        agg == [i \in 1 .. Len(keys) |->
                  [label |-> keys[i], accts |-> Count(grp(keys[i])),
                   items |-> Sum(grp(keys[i]), "TotalItems"),
                   paid |-> Sum(grp(keys[i]), "PaidItems")]]
        ta11 == ColSum(agg, "accts")
        ti11 == ColSum(agg, "items")
        tp11 == ColSum(agg, "paid")
        body == [i \in 1 .. Len(keys) |->
                  [label |-> agg[i].label, accts |-> agg[i].accts,
                   items |-> agg[i].items, paid |-> agg[i].paid,
                   pctAccts |-> PctOfTotal(agg[i].accts, ta11),
                   pctItems |-> PctOfTotalGuarded(agg[i].items, ti11),
                   payRatio |-> PayRatio(agg[i].paid, agg[i].items, 4)]]
        gt11 == [label |-> "Grand Total", accts |-> ta11, pctAccts |-> Hundred,
                 items |-> ti11, pctItems |-> Hundred, paid |-> tp11,
                 payRatio |-> PayRatio(tp11, ti11, 4)]
    IN  Append(body, gt11)

od_status_personal == od_status(PERSONAL_OPEN)
od_status_business == od_status(BUSINESS_OPEN)

(***************************************************************************)
(* ANALYSIS 13: Reg E Summary (personal)                                   *)
(***************************************************************************)
reg_e_summary ==
    LET p_rege == PERSONAL_OPEN
        keys == GroupKeys(p_rege, "RegEFlag")
        grp(k) == {r \in p_rege : r.RegEFlag = k}
        agg == [i \in 1 .. Len(keys) |->
                  [label |-> keys[i], accts |-> Count(grp(keys[i]))]]
        ta13 == ColSum(agg, "accts")
        body == [i \in 1 .. Len(keys) |->
                  [label |-> agg[i].label, accts |-> agg[i].accts,
                   pctAccts |-> PctOfTotal(agg[i].accts, ta13)]]
        gt13 == [label |-> "Grand Total", accts |-> ta13, pctAccts |-> Hundred]
    IN  Append(body, gt13)

(***************************************************************************)
(* ANALYSIS 14: OD Limit Stratification (personal)                         *)
(***************************************************************************)
\* the numeric group keys in ascending order
RECURSIVE SortedInts(_)
SortedInts(S) ==
    IF S = {} THEN <<>>
    ELSE LET m == CHOOSE x \in S : \A y \in S : x <= y
         IN  <<m>> \o SortedInts(S \ {m})

od_limit_summary ==
    LET p_odl == PERSONAL_OPEN
        keys == SortedInts({r.ODLimit : r \in p_odl})
        grp(k) == {r \in p_odl : r.ODLimit = k}
        agg == [i \in 1 .. Len(keys) |->
                  [label |-> ToString(keys[i]), accts |-> Count(grp(keys[i])),
                   items |-> Sum(grp(keys[i]), "TotalItems"),
                   paid |-> Sum(grp(keys[i]), "PaidItems"),
                   avgDepCnt |-> Mean(grp(keys[i]), "DepositCount"),
                   avgDepAmt |-> Mean(grp(keys[i]), "DepositAmount"),
                   avgSwipes |-> Mean(grp(keys[i]), "Swipes")]]
        ta14 == ColSum(agg, "accts")
        ti14 == ColSum(agg, "items")
        tp14 == ColSum(agg, "paid")
        body == [i \in 1 .. Len(keys) |->
                  [label |-> agg[i].label, accts |-> agg[i].accts,
                   pctAccts |-> PctOfTotal(agg[i].accts, ta14),
                   items |-> agg[i].items,
                   pctItems |-> PctOfTotalGuarded(agg[i].items, ti14),
                   paid |-> agg[i].paid,
                   payRatio |-> PayRatio(agg[i].paid, agg[i].items, 4),
                   avgDepCnt |-> agg[i].avgDepCnt,
                   avgDepAmt |-> agg[i].avgDepAmt,
                   avgSwipes |-> agg[i].avgSwipes]]
        gt14 == [label |-> "Grand Total", accts |-> ta14, pctAccts |-> Hundred,
                 items |-> ti14, pctItems |-> Hundred, paid |-> tp14,
                 payRatio |-> PayRatio(tp14, ti14, 4),
                 avgDepCnt |-> Mean(p_odl, "DepositCount"),
                 avgDepAmt |-> Mean(p_odl, "DepositAmount"),
                 avgSwipes |-> Mean(p_odl, "Swipes")]
    IN  Append(body, gt14)

(***************************************************************************)
(* ANALYSIS 15: Historical Reg E by Year Opened                            *)
(***************************************************************************)
p_hist == {r \in PERSONAL_OPEN : r.YearOpened # NaT}

assign_year_bin(year) ==
    IF year = NaT THEN "Unknown"
    ELSE IF year < 2010 THEN "<2010"
    ELSE IF year <= 2025 THEN ToString(year)
    ELSE "2025+"

sort_order ==
    <<"<2010">> \o [i \in 1 .. 16 |-> ToString(2009 + i)]
                \o <<"2025+", "Unknown", "Grand Total">>

\* the columns of the pivot: groupby(..., dropna=False) keeps the null flag
pivot_columns == {r.RegEFlag : r \in p_hist}

\* sorted(...) of the pivot's columns raises TypeError when NaN stands beside a
\* string; with NaN as the only column the outcome of line 652 depends on the
\* identity of the NaN object, so both outcomes are possible
Analysis15Outcomes ==
    IF Null \in pivot_columns /\ pivot_columns # {Null} THEN {"TypeError"}
    ELSE IF pivot_columns = {Null} THEN {"ok", "TypeError"}
    ELSE {"ok"}

reg_e_flags ==
    IF pivot_columns = {Null} THEN <<Null>> ELSE SortedKeys(pivot_columns)

\* "Y" if "Y" in reg_e_flags else (reg_e_flags[0] if reg_e_flags else None);
\* the empty sequence stands for None
opt_in_flag ==
    IF "Y" \in pivot_columns THEN <<"Y">>
    ELSE IF reg_e_flags # <<>> THEN <<reg_e_flags[1]>>
    ELSE <<>>

\* (x / denom * 100).fillna(0), then round(1)
OptInPct(x, accts) ==
    IF accts = 0 THEN Zero ELSE Round(FDiv(100 * x, accts), 1)

\* faulty variant: the rows in descending order (sort_values(ascending=False))
SortByOrderDescending(rowset) ==
    LET present == SelectSeq(sort_order, LAMBDA l : \E row \in rowset : row.label = l)
        n == Len(present)
    IN  [i \in 1 .. n |-> CHOOSE row \in rowset : row.label = present[n + 1 - i]]

\* rows ordered by the position of their label in sort_order
SortByOrder(rowset) ==
    LET present == SelectSeq(sort_order, LAMBDA l : \E row \in rowset : row.label = l)
    IN  [i \in 1 .. Len(present) |-> CHOOSE row \in rowset : row.label = present[i]]

pivot_table ==
    LET flagset == {reg_e_flags[i] : i \in 1 .. Len(reg_e_flags)}
        bins == {assign_year_bin(r.YearOpened) : r \in p_hist}
        cell(b, f) == Count({r \in p_hist : assign_year_bin(r.YearOpened) = b
                                            /\ r.RegEFlag = f})
        total(b) == Count({r \in p_hist : assign_year_bin(r.YearOpened) = b
                                          /\ r.RegEFlag \in flagset})
        body == {[label |-> b, flags |-> [f \in flagset |-> cell(b, f)],
                  accts |-> total(b),
                  optIn |-> IF opt_in_flag = <<>> THEN Zero
                            ELSE OptInPct(cell(b, opt_in_flag[1]), total(b))] :
                 b \in bins}
        colsum(f) == Count({r \in p_hist : r.RegEFlag = f})
        ta15 == Count({r \in p_hist : r.RegEFlag \in flagset})
        grand_total_hist ==
            [label |-> "Grand Total", flags |-> [f \in flagset |-> colsum(f)],
             accts |-> ta15,
             optIn |-> IF opt_in_flag = <<>> THEN Zero
                       ELSE OptInPct(colsum(opt_in_flag[1]), ta15)]
    IN  SortByOrder(body \cup {grand_total_hist})

(***************************************************************************)
(* format_ppt_table: the text of the cells of a slide's table. The text of *)
(* a float cell is the number it prints, a fraction whose denominator is   *)
(* the power of ten of the printed decimals; NaN stands for the empty text *)
(* of a NaN cell. The other cells print their value as it is.              *)
(***************************************************************************)
PercentColumns == {"pctAccts", "pctItems", "payRate", "optIn"}
CurrencyColumns == {"avgDepAmt", "avgDepCnt", "avgODLimit"}
FloatColumns == PercentColumns \cup CurrencyColumns \cup {"payRatio", "avgSwipes"}

\* lines 139-154: the f-string chosen by the column name
FormatFloat(col, val) ==
    IF val.d = 0 THEN val
    ELSE IF col \in PercentColumns THEN Round(val, 1)
    ELSE IF col = "payRatio" THEN Round(val, 2)
    ELSE IF col \in CurrencyColumns
    THEN IF val.n >= 100 * val.d \/ -val.n >= 100 * val.d
         THEN Round(val, 0) ELSE Round(val, 2)
    ELSE Round(val, 1)

format_ppt_table(data) ==
    [i \in 1 .. Len(data) |->
        [col \in DOMAIN data[i] |->
            IF col \in FloatColumns THEN FormatFloat(col, data[i][col])
            ELSE data[i][col]]]

(***************************************************************************)
(* The script                                                              *)
(***************************************************************************)
Analyses == 1 .. 15

Init ==
    /\ df = <<>>
    /\ columns \in {AllColumns, AllColumns \ {"OD Status"}}
    /\ pc = "load"
    /\ tables = [a \in Analyses |-> <<>>]
    /\ slides = {}
    /\ deck = [a \in Analyses |-> <<>>]
    /\ tabs = {}
    /\ failure = {}

\* pd.read_csv and the cleaning of one more record, drawn from RowSet
ReadCsv(RowSet) ==
    /\ pc = "load"
    /\ Size < MaxRows
    /\ \E r \in RowSet : df' = AddRow(r)
    /\ UNCHANGED <<columns, pc, tables, slides, deck, tabs, failure>>

ReadRow == ReadCsv(InputRows)

LoadDone ==
    /\ pc = "load"
    /\ pc' = "A1"
    /\ UNCHANGED <<df, columns, tables, slides, deck, tabs, failure>>

\* faulty variant: the analysis filters the shared table in place
\* (df = df[OPEN_MASK] where the code takes df[...].copy())
ProduceInPlace(a, t, nxt) ==
    /\ tables' = [tables EXCEPT ![a] = t]
    /\ pc' = nxt
    /\ df' = [r \in OPEN_MASK |-> df[r]]
    /\ UNCHANGED <<columns, slides, deck, tabs, failure>>

\* analysis a completes with table t; the script goes on at nxt
Produce(a, t, nxt) ==
    /\ tables' = [tables EXCEPT ![a] = t]
    /\ pc' = nxt
    /\ UNCHANGED <<df, columns, slides, deck, tabs, failure>>

\* an exception in analysis a: nothing catches it, the interpreter exits
Raise(a, err) ==
    /\ failure' = {[analysis |-> a, error |-> err]}
    /\ pc' = "aborted"
    /\ UNCHANGED <<df, columns, tables, slides, deck, tabs>>

Analysis1 == pc = "A1" /\ Produce(1, stat_code_summary, "A2")
Analysis2 == pc = "A2" /\ Produce(2, acct_type_summary, "A3")
Analysis3 == pc = "A3" /\ Produce(3, personal_deposit_summary, "A4")
Analysis4 == pc = "A4" /\ Produce(4, business_deposit_summary, "A5")
Analysis5 == pc = "A5" /\ Produce(5, nsf_strat1, "A6")
Analysis6 == pc = "A6" /\ Produce(6, nsf_strat_biz, "A7")
Analysis7 == pc = "A7" /\ Produce(7, nsf_pay_p, "A8")
Analysis8 == pc = "A8" /\ Produce(8, nsf_pay_b, "A9")
Analysis9 == pc = "A9" /\ Produce(9, nsf_deps_p, "A10")
Analysis10 == pc = "A10" /\ Produce(10, nsf_deps_b, "A11")

\* groupby("OD Status") raises KeyError when the file has no ODStatus column
Analysis11 ==
    /\ pc = "A11"
    /\ IF "OD Status" \in columns
       THEN Produce(11, od_status_personal, "A12")
       ELSE Raise(11, "KeyError")

Analysis12 ==
    /\ pc = "A12"
    /\ IF "OD Status" \in columns
       THEN Produce(12, od_status_business, "A13")
       ELSE Raise(12, "KeyError")

Analysis13 == pc = "A13" /\ Produce(13, reg_e_summary, "A14")
Analysis14 == pc = "A14" /\ Produce(14, od_limit_summary, "A15")

Analysis15 ==
    /\ pc = "A15"
    /\ \E outcome \in Analysis15Outcomes :
          IF outcome = "ok"
          THEN Produce(15, pivot_table, "pptx")
          ELSE Raise(15, outcome)

\* section 5: one add_slide_with_table call per summary table, then prs.save
GeneratePowerPoint ==
    /\ pc = "pptx"
    /\ slides' = Analyses
    /\ deck' = [a \in Analyses |-> format_ppt_table(tables[a])]
    /\ pc' = "excel"
    /\ UNCHANGED <<df, columns, tables, tabs, failure>>

\* section 6: one to_excel call per summary table
GenerateExcel ==
    /\ pc = "excel"
    /\ tabs' = Analyses
    /\ pc' = "done"
    /\ UNCHANGED <<df, columns, tables, slides, deck, failure>>

Analysis ==
    \/ Analysis1 \/ Analysis2 \/ Analysis3 \/ Analysis4 \/ Analysis5
    \/ Analysis6 \/ Analysis7 \/ Analysis8 \/ Analysis9 \/ Analysis10
    \/ Analysis11 \/ Analysis12 \/ Analysis13 \/ Analysis14 \/ Analysis15

Next ==
    \/ ReadRow
    \/ LoadDone
    \/ Analysis
    \/ GeneratePowerPoint
    \/ GenerateExcel

Spec == Init /\ [][Next]_vars

\* the same script on a table of one record over the range of the binned measures
ReadWideRow == pc = "load" /\ Size = 0 /\ ReadCsv(WideRows)

NextBin ==
    \/ ReadWideRow
    \/ LoadDone
    \/ Analysis
    \/ GeneratePowerPoint
    \/ GenerateExcel

SpecBin == Init /\ [][NextBin]_vars

\* the same script on a table whose first record ranges over the open years
YearRows ==
    {[Base EXCEPT !.YearOpened = y, !.RegEFlag = f] :
        y \in 2008 .. 2027, f \in {"Y", "N"}}

YearMates ==
    {Base,
     [Base EXCEPT !.RegEFlag = "N", !.YearOpened = 2009],
     [Base EXCEPT !.RegEFlag = "N", !.YearOpened = 2026]}

ReadYearRow == ReadCsv(IF df = <<>> THEN YearRows ELSE YearMates)

NextYear ==
    \/ ReadYearRow
    \/ LoadDone
    \/ Analysis
    \/ GeneratePowerPoint
    \/ GenerateExcel

SpecYear == Init /\ [][NextYear]_vars

\* the same script on accounts with few and with many items
RoundRows ==
    {[Base EXCEPT !.TotalItems = v[1], !.PaidItems = v[2]] :
        v \in {<<0, 0>>, <<1, 0>>, <<1, 1>>, <<398, 0>>, <<398, 1>>, <<398, 398>>}}

ReadRoundRow == ReadCsv(RoundRows)

NextRound ==
    \/ ReadRoundRow
    \/ LoadDone
    \/ Analysis
    \/ GeneratePowerPoint
    \/ GenerateExcel

SpecRound == Init /\ [][NextRound]_vars

\* the script on raw records: a record is cleaned as it is read; an exception
\* of the cleaning ends the script before the first analysis (analysis 0)
ReadRawRow ==
    /\ pc = "load"
    /\ Size < MaxRows
    /\ \E raw \in RawRows :
          IF CleaningRaises(raw)
          THEN Raise(0, "ValueError")
          ELSE /\ df' = AddRow(Clean(raw))
               /\ UNCHANGED <<columns, pc, tables, slides, deck, tabs, failure>>

NextClean ==
    \/ ReadRawRow
    \/ LoadDone
    \/ Analysis
    \/ GeneratePowerPoint
    \/ GenerateExcel

SpecClean == Init /\ [][NextClean]_vars

(***************************************************************************)
(* Reading the summary tables                                              *)
(***************************************************************************)
Produced == {a \in Analyses : tables[a] # <<>>}
RowsOf(a) == {tables[a][i] : i \in 1 .. Len(tables[a])}
TotalRows(a) == {row \in RowsOf(a) : row.label = "Grand Total"}
NonTotalRows(a) == {row \in RowsOf(a) : row.label # "Grand Total"}
GrandTotal(a) == CHOOSE g \in TotalRows(a) : TRUE

RECURSIVE SetSum(_, _)
SetSum(R, col) ==
    IF R = {} THEN 0
    ELSE LET row == CHOOSE x \in R : TRUE
         IN  row[col] + SetSum(R \ {row}, col)

\* the rows of the cleaned table that analysis a runs on
Population(a) ==
    IF a = 1 THEN {r \in DOMAIN df : TRUE}
    ELSE IF a = 2 THEN {r \in DOMAIN df : r.AcctStatus = "O"}
    ELSE IF a \in {4, 6, 8, 10, 12}
    THEN {r \in DOMAIN df : r.AcctStatus = "O" /\ r.BusinessFlag = "B"}
    ELSE IF a = 15
    THEN {r \in DOMAIN df : r.AcctStatus = "O" /\ r.BusinessFlag = "P"
                            /\ r.YearOpened # NaT}
    ELSE {r \in DOMAIN df : r.AcctStatus = "O" /\ r.BusinessFlag = "P"}

RECURSIVE PopCount(_)
PopCount(S) ==
    IF S = {} THEN 0
    ELSE LET r == CHOOSE x \in S : TRUE IN df[r] + PopCount(S \ {r})

RECURSIVE PopSum(_, _)
PopSum(S, col) ==
    IF S = {} THEN 0
    ELSE LET r == CHOOSE x \in S : TRUE IN df[r] * r[col] + PopSum(S \ {r}, col)

(***************************************************************************)
(* C1: in every summary table the Grand Total row's account count is the   *)
(* sum of the account counts of the other rows, and its "% of Accounts",   *)
(* where the table has the column, is 100.0.                               *)
(***************************************************************************)
C1_GrandTotalReconciles ==
    \A a \in Produced :
        /\ Cardinality(TotalRows(a)) = 1
        /\ \A g \in TotalRows(a) :
              /\ g.accts = SetSum(NonTotalRows(a), "accts")
              /\ "pctAccts" \in DOMAIN g => g.pctAccts = [n |-> 100, d |-> 1]

\* two open accounts and one closed one: rows C = 1, O = 2, Grand Total = 3
C1_Witness ==
    /\ pc = "done"
    /\ Len(tables[1]) = 3
    /\ tables[1][1].label = "C" /\ tables[1][1].accts = 1
    /\ tables[1][2].label = "O" /\ tables[1][2].accts = 2
    /\ tables[1][3].label = "Grand Total" /\ tables[1][3].accts = 3
    /\ tables[1][3].pctAccts = [n |-> 100, d |-> 1]

(***************************************************************************)
(* C2: percentage closure of the single-key tables                         *)
(***************************************************************************)
\* a finite float rounded to 2 decimals, in hundredths
Hundredths(x) == (100 * x.n) \div x.d

RECURSIVE PctSum(_, _)
PctSum(R, col) ==
    IF R = {} THEN 0
    ELSE LET row == CHOOSE x \in R : TRUE
         IN  Hundredths(row[col]) + PctSum(R \ {row}, col)

Abs(x) == IF x < 0 THEN -x ELSE x

\* the percentages of column col of table a sum to 100.0 within n * 0.01
Closure(a, col) ==
    LET R == NonTotalRows(a)
    IN  /\ \A row \in R : row[col].d # 0
        /\ Abs(PctSum(R, col) - 10000) <= Cardinality(R)

\* the column a percent-of-total column is computed from
BaseColumn(col) == IF col = "pctAccts" THEN "accts" ELSE "items"

\* C2 as stated: in every single-key summary table the rounded percentages of
\* each percent-of-total column sum to 100.0 within n * 0.01, for every input
\* table, one whose item total is 0 included.  It is taken here on the tables
\* that have a group row and whose "% of Items" column carries the zero guard
\* (analyses 5 to 12 and 14), where a zero item total gives 0 in every row.
C2_ClosureEveryInput ==
    \A a \in Produced \cap ((5 .. 12) \cup {14}) :
        \A col \in {"pctAccts", "pctItems"} :
            (col \in DOMAIN GrandTotal(a) /\ NonTotalRows(a) # {})
                => Closure(a, col)

\* C2 as amended: in every single-key summary table the rounded percentages of
\* each percent-of-total column sum to 100.0 within n * 0.01 whenever the total
\* the column is a percentage of (the Grand Total row's account count or item
\* sum) is positive.
C2_ClosureWhenTotalPositive ==
    \A a \in Produced \ {15} :
        \A col \in {"pctAccts", "pctItems"} :
            (col \in DOMAIN GrandTotal(a) /\ GrandTotal(a)[BaseColumn(col)] > 0)
                => Closure(a, col)

\* three NSF bins of one account each: 33.33 + 33.33 + 33.33 = 99.99
C2_Witness ==
    /\ pc = "done"
    /\ Cardinality(NonTotalRows(5)) = 3
    /\ GrandTotal(5).accts = 3 /\ GrandTotal(5).items > 0
    /\ PctSum(NonTotalRows(5), "pctAccts") = 9999
    /\ PctSum(NonTotalRows(5), "pctItems") # 10000

(***************************************************************************)
(* C3: every aggregate of a Grand Total row is computed over the full set  *)
(* of rows the analysis runs on: its account count is the number of those  *)
(* rows and its item sums are the sums over all of them, also when some    *)
(* rows land in no group.                                                  *)
(***************************************************************************)
C3_TotalsOverFullPopulation ==
    \A a \in Produced :
        LET g == GrandTotal(a)
            S == Population(a)
        IN  /\ g.accts = PopCount(S)
            /\ "items" \in DOMAIN g => g.items = PopSum(S, "TotalItems")
            /\ "paid" \in DOMAIN g => g.paid = PopSum(S, "PaidItems")

(***************************************************************************)
(* C4: the Grand Total row's Pay Ratio / % Pay Rate is total paid items    *)
(* over total presented items, both over the full analysed population      *)
(* (times 100 for the rate), rounded as the column is.                     *)
(***************************************************************************)
RatioOf(p, q, scale, k) ==
    [n |-> RoundHalfEven(scale * p * (10 ^ k), q), d |-> 10 ^ k]

C4_TotalRatioOverFullPopulation ==
    \A a \in Produced :
        LET g == GrandTotal(a)
            tp == PopSum(Population(a), "PaidItems")
            ti == PopSum(Population(a), "TotalItems")
        IN  ti > 0 =>
              /\ "payRate" \in DOMAIN g => g.payRate = RatioOf(tp, ti, 100, 1)
              /\ "payRatio" \in DOMAIN g =>
                    g.payRatio = RatioOf(tp, ti, 1, IF a \in {1, 2} THEN 2 ELSE 4)

(***************************************************************************)
(* C5: a group row or Grand Total row whose items presented are zero has   *)
(* Pay Ratio / % Pay Rate 0, and no Pay Ratio / % Pay Rate is NaN or       *)
(* infinite.                                                               *)
(***************************************************************************)
C5_ZeroDenominatorRatioIsZero ==
    \A a \in Produced :
        \A row \in RowsOf(a) :
            /\ "payRatio" \in DOMAIN row =>
                  /\ row.payRatio.d # 0
                  /\ row.items = 0 => row.payRatio = [n |-> 0, d |-> 1]
            /\ "payRate" \in DOMAIN row =>
                  /\ row.payRate.d # 0
                  /\ row.items = 0 => row.payRate = [n |-> 0, d |-> 1]

\* a group of accounts with no items beside one with items, and a business
\* population with no items at all
C5_Witness ==
    /\ pc = "done"
    /\ \E row \in NonTotalRows(7) : row.items = 0 /\ row.payRate.n = 0
    /\ \E row \in NonTotalRows(7) : row.items > 0 /\ row.payRate.n > 0
    /\ NonTotalRows(12) # {}
    /\ GrandTotal(12).items = 0 /\ GrandTotal(12).payRatio = [n |-> 0, d |-> 1]

(***************************************************************************)
(* C6: when the items of all groups sum to 0 and the table has a group,    *)
(* every group's "% of Items" / "% of Items Presented" is 0.               *)
(***************************************************************************)
C6_ZeroTotalPercentIsZero ==
    \A a \in Produced :
        \A row \in NonTotalRows(a) :
            ("pctItems" \in DOMAIN row /\ GrandTotal(a).items = 0)
                => row.pctItems = [n |-> 0, d |-> 1]

(***************************************************************************)
(* C7: when rows of the analysed population have a null Reg E flag, the    *)
(* grouping by the flag emits a row (a column, in the pivot) for the null  *)
(* group that carries the count of those rows.                             *)
(***************************************************************************)
C7_NullGroupEmitted ==
    /\ 13 \in Produced =>
          LET nulls == {r \in Population(13) : r.RegEFlag = Null}
          IN  nulls # {} =>
                \E row \in NonTotalRows(13) :
                    row.label = Null /\ row.accts = PopCount(nulls)
    /\ 15 \in Produced =>
          LET nulls == {r \in Population(15) : r.RegEFlag = Null}
          IN  nulls # {} =>
                /\ Null \in DOMAIN GrandTotal(15).flags
                /\ GrandTotal(15).flags[Null] = PopCount(nulls)

(***************************************************************************)
(* C8: binning maps v to label i exactly when boundaries[i] < v <=         *)
(* boundaries[i+1], the last bin open-ended: a binned table has a row for  *)
(* label i exactly when such a v is in the population, and the row counts  *)
(* the accounts with such a v.  Deposit counts 0, 1, 3, 7, 12 fall in      *)
(* "0", "1", "3-5", "6-10", "10+"; item counts 0, 6, 12, 24, 36, 48 fall   *)
(* in the bin they close and every non-negative count in exactly one bin.  *)
(***************************************************************************)
BinColumn(a) == IF a \in {3, 4} THEN "DepositCount" ELSE "TotalItems"

DepLabel(v) ==
    IF v = 0 THEN "0" ELSE IF v = 1 THEN "1" ELSE IF v = 2 THEN "2"
    ELSE IF v \in 3 .. 5 THEN "3-5" ELSE IF v \in 6 .. 10 THEN "6-10"
    ELSE IF v > 10 THEN "10+" ELSE "none"

NsfLabel(v) ==
    IF v = 0 THEN "0" ELSE IF v \in 1 .. 6 THEN "1-6"
    ELSE IF v \in 7 .. 12 THEN "7-12" ELSE IF v \in 13 .. 24 THEN "13-24"
    ELSE IF v \in 25 .. 36 THEN "25-36" ELSE IF v \in 37 .. 48 THEN "37-48"
    ELSE IF v > 48 THEN "49+" ELSE "none"

ExpectedLabel(a, r) ==
    IF a \in {3, 4} THEN DepLabel(r.DepositCount) ELSE NsfLabel(r.TotalItems)

C8_BinMembership ==
    \A a \in Produced \cap (3 .. 10) :
        /\ {row.label : row \in NonTotalRows(a)}
              = {ExpectedLabel(a, r) : r \in Population(a)} \ {"none"}
        /\ \A row \in NonTotalRows(a) :
              row.accts = PopCount({r \in Population(a) :
                                       ExpectedLabel(a, r) = row.label})

\* one account with 48 items lands in "37-48" (and, with no deposits, in "0")
C8_Witness ==
    /\ pc = "done"
    /\ \E r \in DOMAIN df : r.TotalItems = 48 /\ r.BusinessFlag = "P"
    /\ Len(tables[5]) = 2 /\ tables[5][1].label = "37-48"
    /\ Len(tables[3]) = 2 /\ tables[3][1].label = "0"

(***************************************************************************)
(* C9: every value that reaches a binned analysis maps to a label, so      *)
(* every row of the analysed population is counted in a row of the binned  *)
(* summary table; a value at or below -1 is counted under the first label. *)
(***************************************************************************)
C9_BinCoverageTotal ==
    \A a \in Produced \cap (3 .. 10) :
        /\ SetSum(NonTotalRows(a), "accts") = PopCount(Population(a))
        /\ \A r \in Population(a) :
              r[BinColumn(a)] <= -1 =>
                  \E row \in NonTotalRows(a) : row.label = "0"

(***************************************************************************)
(* C10: when an analysis fails, the failure is recorded and every other    *)
(* analysis has still produced its table and the tables have reached the   *)
(* renderers once the script has stopped.                                  *)
(***************************************************************************)
Stopped == pc \in {"done", "aborted"}

C10_FailureIsLocal ==
    (Stopped /\ failure # {}) =>
        \A f \in failure :
            /\ \A a \in Analyses \ {f.analysis} : tables[a] # <<>>
            /\ slides = Analyses \ {f.analysis}
            /\ tabs = Analyses \ {f.analysis}

(***************************************************************************)
(* C11: in every summary table the Grand Total row is the last row and     *)
(* occurs exactly once, whatever order the other rows are sorted in; in    *)
(* the historical Reg E table this holds for every open year.              *)
(***************************************************************************)
C11_GrandTotalLast ==
    \A a \in Produced :
        LET n == Len(tables[a])
        IN  /\ tables[a][n].label = "Grand Total"
            /\ \A i \in 1 .. n - 1 : tables[a][i].label # "Grand Total"

\* accounts opened before 2010, in 2015 and after 2025: three year rows, sorted
C11_Witness ==
    /\ pc = "done"
    /\ Len(tables[15]) = 4
    /\ tables[15][1].label = "<2010"
    /\ tables[15][2].label = "2015"
    /\ tables[15][3].label = "2025+"
    /\ tables[15][4].label = "Grand Total"

(***************************************************************************)
(* C12: the non-total rows of every binned summary table stand in the      *)
(* declaration order of the bin labels ("0", "1-6", "7-12", ... for the    *)
(* item bins, "0", "1", "2", "3-5", ... for the deposit bins, "<2010",     *)
(* "2010", ..., "2025", "2025+" for the year bins), whichever bins are     *)
(* populated.                                                              *)
(***************************************************************************)
DeclaredOrder(a) ==
    IF a \in {3, 4} THEN <<"0", "1", "2", "3-5", "6-10", "10+">>
    ELSE IF a \in 5 .. 10
    THEN <<"0", "1-6", "7-12", "13-24", "25-36", "37-48", "49+">>
    ELSE <<"<2010", "2010", "2011", "2012", "2013", "2014", "2015", "2016",
           "2017", "2018", "2019", "2020", "2021", "2022", "2023", "2024",
           "2025", "2025+">>

PositionIn(order, l) == CHOOSE i \in 1 .. Len(order) : order[i] = l

C12_BinsInDeclarationOrder ==
    \A a \in Produced \cap ((3 .. 10) \cup {15}) :
        LET order == DeclaredOrder(a)
            n == Len(tables[a]) - 1
        IN  /\ \A i \in 1 .. n : \E k \in 1 .. Len(order) : order[k] = tables[a][i].label
            /\ \A i \in 1 .. n - 1 :
                  PositionIn(order, tables[a][i].label)
                     < PositionIn(order, tables[a][i + 1].label)

\* item bins 7-12, 13-24 and 49+ populated and at least two deposit bins:
\* the alphabetical order of the item bins would be 13-24, 49+, 7-12
C12_Witness ==
    /\ pc = "done"
    /\ Len(tables[5]) = 4
    /\ tables[5][1].label = "7-12"
    /\ tables[5][2].label = "13-24"
    /\ tables[5][3].label = "49+"
    /\ Len(tables[3]) >= 3

(***************************************************************************)
(* C13: every percentage and ratio on a slide is the exact value rounded   *)
(* once to the decimals the slide shows (1 for a percentage, 2 for a       *)
(* ratio), never the rounding of a value that an analysis rounded before.  *)
(***************************************************************************)
RoundedOnce(num, den, k) == Round(FDiv(num, den), k)

C13_RoundedOnce ==
    \A a \in slides :
        \A i \in 1 .. Len(deck[a]) :
            LET row == tables[a][i]
                shown == deck[a][i]
                g == GrandTotal(a)
            IN  /\ ("pctAccts" \in DOMAIN row /\ g.accts > 0)
                      => shown.pctAccts = RoundedOnce(100 * row.accts, g.accts, 1)
                /\ ("pctItems" \in DOMAIN row /\ g.items > 0)
                      => shown.pctItems = RoundedOnce(100 * row.items, g.items, 1)
                /\ ("payRate" \in DOMAIN row /\ row.items > 0)
                      => shown.payRate = RoundedOnce(100 * row.paid, row.items, 1)
                /\ ("payRatio" \in DOMAIN row /\ row.items > 0)
                      => shown.payRatio = RoundedOnce(row.paid, row.items, 2)

(***************************************************************************)
(* C15: once the table is cleaned, no step of the script changes it (nor   *)
(* its columns, from which the masks are computed), and a summary table    *)
(* that has been produced is not changed by the analyses that run after    *)
(* it.                                                                     *)
(***************************************************************************)
C15_AnalysesLeaveSourceAlone ==
    [][/\ pc # "load" => (df' = df /\ columns' = columns)
       /\ \A a \in Produced : tables'[a] = tables[a]]_vars

\* all fifteen analyses have run on a table with open and closed accounts
C15_Witness ==
    /\ pc = "done"
    /\ Produced = Analyses
    /\ OPEN_MASK # {}
    /\ Rows \ OPEN_MASK # {}

(***************************************************************************)
(* C16: a mean over no rows is reported as 0: when a table with accounts   *)
(* has no open business account, the averages of the Grand Total row of    *)
(* the business deposit table and of the business behavioural table        *)
(* ("Avg $$ Deposits", "Avg # Deposits", "Average of OD Limit", "Average   *)
(* of Swipes") are 0, not NaN.                                             *)
(***************************************************************************)
AverageColumns == {"avgDepAmt", "avgDepCnt", "avgODLimit", "avgSwipes"}

C16_EmptyMeanIsZero ==
    \A a \in Produced \cap {4, 10} :
        (Rows # {} /\ Population(a) = {}) =>
            \A col \in AverageColumns \cap DOMAIN GrandTotal(a) :
                GrandTotal(a)[col] = Zero

(***************************************************************************)
(* C17: the cleaning never fails, and after it every measure column holds  *)
(* a number in every row.                                                  *)
(***************************************************************************)
C17_CleaningNeverFails ==
    /\ \A f \in failure : f.analysis # 0
    /\ \A r \in Rows : \A col \in MeasureColumns : r[col] \in Int

(***************************************************************************)
(* C18: in the historical Reg E table (here: of accounts whose flag is     *)
(* recorded) the "Opt In %" of every year row and of the Grand Total row   *)
(* is 100 x (the row's accounts with flag "Y") / (the row's accounts),     *)
(* rounded to 1 decimal, and 0 for a row without accounts; the counts of   *)
(* the Grand Total row are the column totals.                              *)
(***************************************************************************)
OptedIn(row) == IF "Y" \in DOMAIN row.flags THEN row.flags["Y"] ELSE 0

RECURSIVE FlagSum(_, _)
FlagSum(R, f) ==
    IF R = {} THEN 0
    ELSE LET row == CHOOSE x \in R : TRUE
         IN  row.flags[f] + FlagSum(R \ {row}, f)

C18_OptInPctCountsY ==
    (15 \in Produced /\ Null \notin DOMAIN GrandTotal(15).flags) =>
        /\ \A row \in RowsOf(15) :
              row.optIn = IF row.accts = 0 THEN Zero
                          ELSE RoundedOnce(100 * OptedIn(row), row.accts, 1)
        /\ \A f \in DOMAIN GrandTotal(15).flags :
              GrandTotal(15).flags[f] = FlagSum(NonTotalRows(15), f)

=============================================================================
